---- MODULE Spec2Model ----
(***************************************************************************)
(* sqldir: a file object (class SqlDir) whose content lives in one row of  *)
(* the sqlite table files(filename PRIMARY KEY, content).  The whole       *)
(* record is loaded at construction, mutated in memory and written back by *)
(* close().  The model follows src/sqldir/__init__.py method by method.    *)
(***************************************************************************)
EXTENDS Integers, Sequences, FiniteSets, TLC

\* ------------------------------------------------------------------ bounds
\* longest buffer a write may produce (the code has no limit)
MaxLen == 2
\* seek offsets and positions are kept within -MaxNeg .. MaxLen + 1
MaxNeg == 1
\* longest buffer in the specification of many sessions on two paths
MaxLenSessions == 1
\* longest buffer in the specification of the failing store
MaxLenFailing == 1
\* longest buffer in the specification of two handles on one path
MaxLenTwo == 2
\* longest buffer and longest write in the specification of whole-file sessions
MaxLenWhole == 3
MaxDataWhole == 2

\* ------------------------------------------------------- program constants
\* b"\n", the line terminator searched by readline and __next__
NL == 10

\* the alphabet: the newline and U+00E9, whose UTF-8 form is the two bytes
\* 195 169; either byte alone is not valid UTF-8
ByteVals == {NL, 195, 169}
CharVals == {NL, 233}

SeqsUpTo(S, n) == UNION {[1 .. k -> S] : k \in 0 .. n}

Handles == {1}
\* names as the caller gives them; str(Path(name)) maps "./p" to "p"
RawNames == {"p", "./p", "q"}
Paths == {"p", "q"}
Modes == {<<"r">>, <<"w">>, <<"a">>, <<"r", "+">>, <<"w", "+">>, <<"a", "+">>,
          <<"r", "b">>, <<"w", "b">>, <<"a", "b">>, <<"r", "b", "+">>}

\* ------------------------------------------------------------ Python values
Str(s) == [kind |-> "str", val |-> s]
Bytes(b) == [kind |-> "bytes", val |-> b]
NoValue == [kind |-> "none", val |-> <<>>]
IntVal(n) == [kind |-> "int", val |-> <<n>>]
Self == [kind |-> "self", val |-> <<>>]

\* "c" in mode
Has(mode, c) == \E i \in DOMAIN mode : mode[i] = c

\* str(Path(name))
Normalize(name) == IF name = "./p" THEN "p" ELSE name

\* Python slice index adjustment: negative indices count from the end, and
\* everything is clamped to 0 .. n
ClampIdx(i, n) ==
    IF i < 0 THEN (IF i + n < 0 THEN 0 ELSE i + n)
    ELSE (IF i > n THEN n ELSE i)

\* s[i:j]
Slice(s, i, j) ==
    LET lo == ClampIdx(i, Len(s))
        hi == ClampIdx(j, Len(s))
    IN  IF lo >= hi THEN <<>> ELSE SubSeq(s, lo + 1, hi)

\* s[i:]
SliceFrom(s, i) == Slice(s, i, Len(s))

\* s[:j]
SliceTo(s, j) == Slice(s, 0, j)

\* s.find(b"\n", start): lowest 0-based index >= start of a newline, or -1
Find(s, start) ==
    LET lo == ClampIdx(start, Len(s))
        hits == {i \in lo .. Len(s) - 1 : s[i + 1] = NL}
    IN  IF start > Len(s) \/ hits = {} THEN -1
        ELSE CHOOSE i \in hits : \A j \in hits : i <= j

\* ------------------------------------------------------------- UTF-8 codec
\* str.encode("utf-8") for code points below U+0800
RECURSIVE Encode(_)
Encode(s) ==
    IF s = <<>> THEN <<>>
    ELSE LET c == Head(s)
         IN  (IF c < 128 THEN <<c>>
              ELSE <<192 + (c \div 64), 128 + (c % 64)>>) \o Encode(Tail(s))

\* bytes.decode("utf-8"), strict, for one- and two-byte forms: ok = FALSE is
\* UnicodeDecodeError
RECURSIVE Decode(_)
Decode(b) ==
    IF b = <<>> THEN [ok |-> TRUE, val |-> <<>>]
    ELSE IF b[1] < 128
    THEN LET r == Decode(Tail(b))
         IN  [ok |-> r.ok, val |-> IF r.ok THEN <<b[1]>> \o r.val ELSE <<>>]
    ELSE IF b[1] >= 194 /\ b[1] <= 223 /\ Len(b) >= 2
            /\ b[2] >= 128 /\ b[2] <= 191
    THEN LET r == Decode(Tail(Tail(b)))
         IN  [ok |-> r.ok,
              val |-> IF r.ok THEN <<(b[1] - 192) * 64 + (b[2] - 128)>> \o r.val
                      ELSE <<>>]
    ELSE [ok |-> FALSE, val |-> <<>>]

\* ------------------------------------------------------------------- state
VARIABLES
    store,      \* the table files as the connection sees it: path -> row
    committed,  \* the table files as of the last commit
    handles,    \* the SqlDir objects the caller holds
    last,       \* the latest call: what it was and what it returned or raised
    hist,       \* history: per path, the buffer of the latest persisting close
    whole       \* history: per path, the shape of the session that closed last

vars == <<store, committed, handles, last, hist, whole>>

NoRow == [present |-> FALSE, content |-> <<>>]
Row(b) == [present |-> TRUE, content |-> b]

\* no session has persisted the path yet
NoHist == [some |-> FALSE, buffer |-> <<>>]
NoWhole ==
    [trace |-> "none", append |-> FALSE, loads |-> FALSE, prior |-> <<>>,
     data |-> NoValue]

\* a handle slot that holds no object.  trace, wdata, prior, found, expect,
\* upserts, persisted and scope are history, not fields of SqlDir
NoHandle ==
    [exists |-> FALSE, name |-> "", mode |-> <<>>, is_binary |-> FALSE,
     encoding |-> "None", buffer |-> <<>>, pos |-> 0, closed |-> FALSE,
     scope |-> "out", trace |-> "none", wdata |-> NoValue, prior |-> <<>>,
     found |-> FALSE, expect |-> NoWhole, upserts |-> 0, persisted |-> <<>>]

\* the record of a call
Call(op, h) ==
    [op |-> op, h |-> h, err |-> "none", ret |-> NoValue, lines |-> <<>>,
     exc |-> FALSE, upsert |-> FALSE, commit |-> FALSE]

\* ------------------------------------------------------- mode predicates
\* mutant: the check never fires
CheckClosedNever(f) == FALSE

\* lines 33-35: _check_closed raises on a closed handle
CheckClosed(f) == f.closed

\* line 22: the modes whose construction reads the record
LoadsRecord(mode) == Has(mode, "r") \/ Has(mode, "a") \/ Has(mode, "+")

\* mutant: the update flag is forgotten
CanWriteNoPlus(mode) == Has(mode, "w") \/ Has(mode, "a")

\* line 65: write is permitted
CanWrite(mode) == Has(mode, "w") \/ Has(mode, "a") \/ Has(mode, "+")

\* lines 85 and 104: read and readline are permitted
CanRead(mode) == Has(mode, "r") \/ Has(mode, "+")

\* mutant: every close persists
PersistsAlways(mode) == TRUE

\* mutant: only the write flag persists
PersistsWriteOnly(mode) == Has(mode, "w")

\* line 169: close persists the buffer
Persists(mode) == \E m \in {"w", "a", "+"} : Has(mode, m)

\* mutant: every handle starts at 0
InitialPosZero(mode, buffer) == 0

\* line 31: the position after construction
InitialPos(mode, buffer) == IF Has(mode, "a") THEN Len(buffer) ELSE 0

\* mutant: the record is loaded in every mode
InitialBufferLoad(mode, row) == IF row.present THEN row.content ELSE <<>>

\* lines 20-29: the buffer after construction
InitialBuffer(mode, row) ==
    IF LoadsRecord(mode)
    THEN (IF row.present THEN row.content ELSE <<>>)
    ELSE <<>>

\* lines 75-79: the buffer after write(data) at pos
Splice(buffer, pos, data) ==
    SliceTo(buffer, pos) \o data \o SliceFrom(buffer, pos + Len(data))

\* lines 95-100, 123-128, 56-61: what a read hands back for the bytes b
Deliver(f, b) ==
    IF f.is_binary THEN [err |-> "none", ret |-> Bytes(b)]
    ELSE IF f.encoding = "None" THEN [err |-> "no_encoding", ret |-> NoValue]
    ELSE IF Decode(b).ok THEN [err |-> "none", ret |-> Str(Decode(b).val)]
    ELSE [err |-> "decode", ret |-> NoValue]

\* the history trace of a handle: "fresh" until its buffer or position first
\* changes, "w1" after exactly one write made while fresh, "other" afterwards
NextTrace(f, g, wrote) ==
    IF wrote /\ f.trace = "fresh" THEN "w1"
    ELSE IF g.buffer = f.buffer /\ g.pos = f.pos THEN f.trace
    ELSE "other"

\* the bound of a specification: after the step, handle h holds at most n
\* bytes and its position is within -MaxNeg .. n + 1
Within(h, n) ==
    handles'[h].exists =>
        /\ Len(handles'[h].buffer) <= n
        /\ handles'[h].pos >= 0 - MaxNeg
        /\ handles'[h].pos <= n + 1

\* ------------------------------------------------------------- actions
\* SqlDir.__init__ as called by open(name, mode)
Open(h, name, mode) ==
    /\ ~handles[h].exists
    /\ LET nm == Normalize(name)
           buf == InitialBuffer(mode, store[nm])
       IN  handles' = [handles EXCEPT ![h] =
              [exists |-> TRUE, name |-> nm, mode |-> mode,
               is_binary |-> Has(mode, "b"),
               encoding |-> IF Has(mode, "b") THEN "None" ELSE "utf-8",
               buffer |-> buf, pos |-> InitialPos(mode, buf),
               closed |-> FALSE, scope |-> "out", trace |-> "fresh",
               wdata |-> NoValue, prior |-> store[nm].content,
               found |-> store[nm].present, expect |-> whole[nm],
               upserts |-> 0, persisted |-> <<>>]]
    /\ last' = Call("open", h)
    /\ UNCHANGED <<store, committed, hist>>

\* the caller lets go of the object without (another) close; the class has
\* no finalizer, so nothing happens to the store
Drop(h) ==
    /\ handles[h].exists
    /\ handles' = [handles EXCEPT ![h] = NoHandle]
    /\ last' = Call("drop", h)
    /\ UNCHANGED <<store, committed, hist>>

\* a call that raised before changing anything
Raise(h, call, err) ==
    /\ last' = [call EXCEPT !.err = err]
    /\ UNCHANGED <<store, committed, handles, hist>>

\* the handle after a call that left it with buffer b and position p; wrote
\* says that the call was a write, of the value data
Moved(f, b, p, wrote, data) ==
    LET g == [f EXCEPT !.buffer = b, !.pos = p]
        t == NextTrace(f, g, wrote)
    IN  [g EXCEPT !.trace = t,
                  !.wdata = IF t = "w1" THEN (IF wrote THEN data ELSE f.wdata)
                            ELSE NoValue]

\* the arguments a caller may pass: text and bytes of at most n elements
WriteArgs(n) ==
    {Str(s) : s \in SeqsUpTo(CharVals, n)}
        \cup {Bytes(b) : b \in SeqsUpTo(ByteVals, n)}
\* the arguments of one handle's life: every text and every byte string of
\* one element, and the empty ones
WriteSamples ==
    {Str(<<>>), Bytes(<<>>)} \cup {Str(<<c>>) : c \in CharVals}
        \cup {Bytes(<<b>>) : b \in ByteVals}
Sizes == -1 .. MaxLen
Offsets == (0 - MaxNeg) .. (MaxLen + 1)
\* absolute seeks reach every offset; relative seeks, seeks from the end and
\* seeks with an unknown whence move by one either way or not at all
SeekArgs ==
    {<<offset, 0>> : offset \in Offsets}
        \cup {<<offset, whence>> : offset \in {-1, 0, 1}, whence \in {1, 2, 3}}

\* lines 68-73: the bytes write splices in, or the error it raises
WriteBytes(f, data) ==
    IF ~f.is_binary /\ data.kind = "str"
    THEN (IF f.encoding = "None" THEN [err |-> "no_encoding", val |-> <<>>]
          ELSE [err |-> "none", val |-> Encode(data.val)])
    ELSE IF f.is_binary /\ data.kind = "str"
    THEN [err |-> "type", val |-> <<>>]
    ELSE [err |-> "none", val |-> data.val]

\* SqlDir.write
Write(h, data) ==
    LET f == handles[h]
        call == Call("write", h)
        w == WriteBytes(f, data)
        b == Splice(f.buffer, f.pos, w.val)
        p == f.pos + Len(w.val)
    IN  /\ f.exists
        /\ IF CheckClosed(f) THEN Raise(h, call, "closed")
           ELSE IF ~CanWrite(f.mode) THEN Raise(h, call, "not_writable")
           ELSE IF w.err # "none" THEN Raise(h, call, w.err)
           ELSE /\ handles' = [handles EXCEPT ![h] = Moved(f, b, p, TRUE, data)]
                /\ last' = [call EXCEPT !.ret = IntVal(Len(w.val))]
                /\ UNCHANGED <<store, committed, hist>>

\* mutant: the slice ends at size, not at pos + size
ReadDataAbsolute(buffer, pos, size) ==
    IF size < 0
    THEN [data |-> SliceFrom(buffer, pos), pos |-> Len(buffer)]
    ELSE LET d == Slice(buffer, pos, size)
         IN  [data |-> d, pos |-> pos + Len(d)]

\* lines 88-93: the bytes read(size) takes and the position it leaves
ReadData(buffer, pos, size) ==
    IF size < 0
    THEN [data |-> SliceFrom(buffer, pos), pos |-> Len(buffer)]
    ELSE LET d == Slice(buffer, pos, pos + size)
         IN  [data |-> d, pos |-> pos + Len(d)]

\* SqlDir.read
Read(h, size) ==
    LET f == handles[h]
        call == Call("read", h)
        r == ReadData(f.buffer, f.pos, size)
        d == Deliver(f, r.data)
    IN  /\ f.exists
        /\ IF CheckClosed(f) THEN Raise(h, call, "closed")
           ELSE IF ~CanRead(f.mode) THEN Raise(h, call, "not_readable")
           ELSE /\ handles' = [handles EXCEPT ![h] =
                                  Moved(f, f.buffer, r.pos, FALSE, NoValue)]
                /\ last' = [call EXCEPT !.err = d.err, !.ret = d.ret]
                /\ UNCHANGED <<store, committed, hist>>

\* mutant: the terminator is skipped but not returned
LineAtNoTerminator(buffer, pos) ==
    LET idx == Find(buffer, pos)
    IN  IF idx = -1
        THEN [line |-> SliceFrom(buffer, pos), pos |-> Len(buffer)]
        ELSE [line |-> Slice(buffer, pos, idx), pos |-> idx + 1]

\* lines 47-54 and 110-117: the line that starts at pos and the position
\* just past it
LineAt(buffer, pos) ==
    LET idx == Find(buffer, pos)
    IN  IF idx = -1
        THEN [line |-> SliceFrom(buffer, pos), pos |-> Len(buffer)]
        ELSE [line |-> Slice(buffer, pos, idx + 1), pos |-> idx + 1]

\* lines 119-121: the size cap of readline
Cap(l, size) ==
    IF size >= 0 /\ Len(l.line) > size
    THEN LET cut == SliceTo(l.line, size)
         IN  [line |-> cut, pos |-> l.pos - (Len(cut) - size)]
    ELSE l

\* lines 104-128: readline(size) on an open handle
ReadlineOutcome(f, size) ==
    IF ~CanRead(f.mode)
    THEN [err |-> "not_readable", ret |-> NoValue, pos |-> f.pos]
    ELSE IF f.pos >= Len(f.buffer)
    THEN [err |-> "none",
          ret |-> IF f.is_binary THEN Bytes(<<>>) ELSE Str(<<>>),
          pos |-> f.pos]
    ELSE LET l == Cap(LineAt(f.buffer, f.pos), size)
             d == Deliver(f, l.line)
         IN  [err |-> d.err, ret |-> d.ret, pos |-> l.pos]

\* SqlDir.readline
Readline(h, size) ==
    LET f == handles[h]
        call == Call("readline", h)
        o == ReadlineOutcome(f, size)
    IN  /\ f.exists
        /\ IF CheckClosed(f) THEN Raise(h, call, "closed")
           ELSE /\ handles' = [handles EXCEPT ![h] =
                                  Moved(f, f.buffer, o.pos, FALSE, NoValue)]
                /\ last' = [call EXCEPT !.err = o.err, !.ret = o.ret]
                /\ UNCHANGED <<store, committed, hist>>

\* lines 135-151: the loop of readlines, from position pos with the lines
\* collected so far
RECURSIVE ReadlinesLoop(_, _, _, _, _)
ReadlinesLoop(f, pos, lines, total, hint) ==
    LET o == ReadlineOutcome([f EXCEPT !.pos = pos], -1)
        n == IF f.is_binary THEN Len(o.ret.val) ELSE Len(Encode(o.ret.val))
    IN  IF o.err # "none" THEN [err |-> o.err, pos |-> o.pos, lines |-> <<>>]
        ELSE IF o.ret.val = <<>>
        THEN [err |-> "none", pos |-> o.pos, lines |-> lines]
        ELSE IF hint > 0 /\ total + n >= hint
        THEN [err |-> "none", pos |-> o.pos, lines |-> Append(lines, o.ret)]
        ELSE ReadlinesLoop(f, o.pos, Append(lines, o.ret), total + n, hint)

\* SqlDir.readlines
Readlines(h, hint) ==
    LET f == handles[h]
        call == Call("readlines", h)
        o == ReadlinesLoop(f, f.pos, <<>>, 0, hint)
    IN  /\ f.exists
        /\ IF CheckClosed(f) THEN Raise(h, call, "closed")
           ELSE /\ handles' = [handles EXCEPT ![h] =
                                  Moved(f, f.buffer, o.pos, FALSE, NoValue)]
                /\ last' = [call EXCEPT !.err = o.err, !.lines = o.lines,
                                        !.ret = IF o.err = "none"
                                                THEN [kind |-> "list", val |-> <<>>]
                                                ELSE NoValue]
                /\ UNCHANGED <<store, committed, hist>>

\* SqlDir.__iter__
Iter(h) ==
    LET f == handles[h]
        call == Call("iter", h)
    IN  /\ f.exists
        /\ IF CheckClosed(f) THEN Raise(h, call, "closed")
           ELSE /\ handles' = [handles EXCEPT ![h] =
                                  Moved(f, f.buffer, 0, FALSE, NoValue)]
                /\ last' = [call EXCEPT !.ret = Self]
                /\ UNCHANGED <<store, committed, hist>>

\* SqlDir.__next__
DunderNext(h) ==
    LET f == handles[h]
        call == Call("next", h)
        l == LineAt(f.buffer, f.pos)
        d == Deliver(f, l.line)
    IN  /\ f.exists
        /\ IF CheckClosed(f) THEN Raise(h, call, "closed")
           ELSE IF f.pos >= Len(f.buffer) THEN Raise(h, call, "stop")
           ELSE /\ handles' = [handles EXCEPT ![h] =
                                  Moved(f, f.buffer, l.pos, FALSE, NoValue)]
                /\ last' = [call EXCEPT !.err = d.err, !.ret = d.ret]
                /\ UNCHANGED <<store, committed, hist>>

\* mutant: a negative result is clamped to 0
SeekPosClamped(buffer, pos, offset, whence) ==
    LET p == CASE whence = 0 -> offset
               [] whence = 1 -> pos + offset
               [] whence = 2 -> Len(buffer) + offset
               [] OTHER -> pos
    IN  IF p < 0 THEN 0 ELSE p

\* lines 155-159: the position seek(offset, whence) sets
SeekPos(buffer, pos, offset, whence) ==
    CASE whence = 0 -> offset
      [] whence = 1 -> pos + offset
      [] whence = 2 -> Len(buffer) + offset
      [] OTHER -> pos

\* SqlDir.seek
Seek(h, offset, whence) ==
    LET f == handles[h]
        call == Call("seek", h)
        p == SeekPos(f.buffer, f.pos, offset, whence)
    IN  /\ f.exists
        /\ IF CheckClosed(f) THEN Raise(h, call, "closed")
           ELSE /\ handles' = [handles EXCEPT ![h] =
                                  Moved(f, f.buffer, p, FALSE, NoValue)]
                /\ last' = [call EXCEPT !.ret = IntVal(p)]
                /\ UNCHANGED <<store, committed, hist>>

\* SqlDir.tell
Tell(h) ==
    LET f == handles[h]
        call == Call("tell", h)
    IN  /\ f.exists
        /\ IF CheckClosed(f) THEN Raise(h, call, "closed")
           ELSE /\ last' = [call EXCEPT !.ret = IntVal(f.pos)]
                /\ UNCHANGED <<store, committed, handles, hist>>

\* SqlDir.flush
Flush(h) ==
    LET f == handles[h]
        call == Call("flush", h)
    IN  /\ f.exists
        /\ IF CheckClosed(f) THEN Raise(h, call, "closed")
           ELSE /\ last' = call
                /\ UNCHANGED <<store, committed, handles, hist>>

\* mutant: INSERT OR IGNORE, which keeps an existing row
UpsertIgnore(table, name, buffer) ==
    IF table[name].present THEN table ELSE [table EXCEPT ![name] = Row(buffer)]

\* mutant: the new content is added to the old row
UpsertAppend(table, name, buffer) ==
    [table EXCEPT ![name] = Row(table[name].content \o buffer)]

\* mutant: the statement has no WHERE and no key, every row is rewritten
UpsertAll(table, name, buffer) == [p \in DOMAIN table |-> Row(buffer)]

\* lines 170-176: INSERT OR REPLACE INTO files VALUES (name, buffer)
Upsert(table, name, buffer) == [table EXCEPT ![name] = Row(buffer)]

\* the shape of the session of handle f, recorded when it closes
Session(f) ==
    [trace |-> f.trace, append |-> Has(f.mode, "a"),
     loads |-> LoadsRecord(f.mode), prior |-> f.prior, data |-> f.wdata]

\* lines 167-177: the body of close, run for the call recorded as call;
\* scope is the handle's scope afterwards
CloseBody(h, call, scope) ==
    LET f == handles[h]
    IN  IF f.closed
        THEN /\ handles' = [handles EXCEPT ![h].scope = scope]
             /\ last' = call
             /\ UNCHANGED <<store, committed, hist>>
        ELSE IF Persists(f.mode)
        THEN /\ store' = Upsert(store, f.name, f.buffer)
             /\ committed' = store'
             /\ handles' = [handles EXCEPT ![h].closed = TRUE,
                                           ![h].scope = scope,
                                           ![h].upserts = f.upserts + 1,
                                           ![h].persisted = f.buffer]
             /\ hist' = [hist EXCEPT ![f.name] = [some |-> TRUE, buffer |-> f.buffer]]
             /\ last' = [call EXCEPT !.upsert = TRUE, !.commit = TRUE]
        ELSE /\ handles' = [handles EXCEPT ![h].closed = TRUE,
                                           ![h].scope = scope]
             /\ last' = call
             /\ UNCHANGED <<store, committed, hist>>

\* SqlDir.close
Close(h) ==
    /\ handles[h].exists
    /\ CloseBody(h, Call("close", h), handles[h].scope)

\* the ways the store can fail a close: the INSERT OR REPLACE raises; the
\* commit raises and the statement stays in the connection's open
\* transaction; the commit raises and the store rolls the transaction back
Failures == {"upsert", "commit", "commit_undone"}

\* mutant: the flag is set after the statements, so a failure leaves it unset
ClosedBeforePersistNot(fail) == FALSE

\* line 168: _closed is set before execute and commit are called, whatever
\* they do
ClosedBeforePersist(fail) == TRUE

\* SqlDir.close when the store raises in execute (line 170) or in commit
\* (line 177): the error propagates out of close
CloseFails(h, fail) ==
    LET f == handles[h]
        call == Call("close", h)
    IN  /\ f.exists /\ ~f.closed /\ Persists(f.mode)
        /\ handles' = [handles EXCEPT ![h].closed = ClosedBeforePersist(fail)]
        /\ store' = CASE fail = "upsert" -> store
                      [] fail = "commit" -> Upsert(store, f.name, f.buffer)
                      [] OTHER -> committed
        /\ last' = [call EXCEPT !.err = "store", !.upsert = (fail # "upsert")]
        /\ UNCHANGED <<committed, hist>>

\* SqlDir.__enter__, at the head of a with statement
Enter(h) ==
    LET f == handles[h]
        call == Call("enter", h)
    IN  /\ f.exists
        /\ IF CheckClosed(f) THEN Raise(h, call, "closed")
           ELSE /\ handles' = [handles EXCEPT ![h].scope = "in"]
                /\ last' = [call EXCEPT !.ret = Self]
                /\ UNCHANGED <<store, committed, hist>>

\* SqlDir.__exit__, when the with block is left: exc says that it is left by
\* the exception the latest call on the handle raised
Exit(h, exc) ==
    /\ handles[h].exists
    /\ handles[h].scope = "in"
    /\ exc => (last.h = h /\ last.err # "none"
               /\ last.op \notin {"enter", "exit", "close"})
    /\ CloseBody(h, [Call("exit", h) EXCEPT !.exc = exc], "out")

\* ------------------------------------------------- Spec: one handle's life
\* one object on path p, from construction to close, under every call
InitRows == {NoRow, Row(<<NL>>), Row(<<195, 169>>)}

Init ==
    /\ store \in [Paths -> InitRows]
    /\ store["q"] = NoRow
    /\ committed = store
    /\ handles = [h \in Handles |-> NoHandle]
    /\ last = Call("start", 1)
    /\ hist = [p \in Paths |-> NoHist]
    /\ whole = [p \in Paths |-> NoWhole]

\* a step A of handle h within the bound n, outside whole-file sessions
Step(A, h, n) == A /\ Within(h, n) /\ UNCHANGED whole

Next ==
    \E h \in Handles :
        \/ Step(\E name \in {"p", "./p"}, mode \in Modes : Open(h, name, mode), h, MaxLen)
        \/ Step(\E data \in WriteSamples : Write(h, data), h, MaxLen)
        \/ Step(\E size \in Sizes : Read(h, size), h, MaxLen)
        \/ Step(\E size \in Sizes : Readline(h, size), h, MaxLen)
        \/ Step(\E hint \in Sizes : Readlines(h, hint), h, MaxLen)
        \/ Step(Iter(h), h, MaxLen)
        \/ Step(DunderNext(h), h, MaxLen)
        \/ Step(\E a \in SeekArgs : Seek(h, a[1], a[2]), h, MaxLen)
        \/ Step(Tell(h), h, MaxLen)
        \/ Step(Flush(h), h, MaxLen)
        \/ Step(Close(h), h, MaxLen)

Spec == Init /\ [][Next]_vars

\* ------------------------------- SpecSessions: many sessions on two paths
\* objects are opened, used, closed or abandoned one after the other on the
\* paths p and q; the data are the newline alone
InitSessions ==
    /\ store \in [Paths -> {NoRow, Row(<<NL>>)}]
    /\ committed = store
    /\ handles = [h \in Handles |-> NoHandle]
    /\ last = Call("start", 1)
    /\ hist = [p \in Paths |-> NoHist]
    /\ whole = [p \in Paths |-> NoWhole]

NextSessions ==
    \E h \in Handles :
        \/ Step(\E name \in RawNames, mode \in Modes : Open(h, name, mode), h, MaxLenSessions)
        \/ Step(\E data \in {Str(<<NL>>), Bytes(<<NL>>)} : Write(h, data), h, MaxLenSessions)
        \/ Step(\E size \in {-1, 1} : Read(h, size), h, MaxLenSessions)
        \/ Step(\E size \in {-1, 1} : Readline(h, size), h, MaxLenSessions)
        \/ Step(\E hint \in {-1, 1} : Readlines(h, hint), h, MaxLenSessions)
        \/ Step(Iter(h), h, MaxLenSessions)
        \/ Step(DunderNext(h), h, MaxLenSessions)
        \/ Step(\E whence \in {0, 2} : Seek(h, 0, whence), h, MaxLenSessions)
        \/ Step(Tell(h), h, MaxLenSessions)
        \/ Step(Flush(h), h, MaxLenSessions)
        \/ Step(Close(h), h, MaxLenSessions)
        \/ Step(Enter(h), h, MaxLenSessions)
        \/ Step(\E exc \in BOOLEAN : Exit(h, exc), h, MaxLenSessions)
        \/ Step(Drop(h), h, MaxLenSessions)

SpecSessions == InitSessions /\ [][NextSessions]_vars

\* ----------------------------------- SpecWholeFile: whole-file sessions
\* the sessions of the tests: an object is opened on p, writes at most once,
\* before anything else, may read to the end, and is closed or abandoned;
\* once a session has persisted p, the sessions that follow only read it
WholeRows ==
    {NoRow, Row(<<>>), Row(<<NL>>), Row(<<195>>), Row(<<195, 169>>),
     Row(<<NL, NL>>)}

InitWholeFile ==
    /\ store \in [Paths -> WholeRows]
    /\ store["q"] = NoRow
    /\ committed = store
    /\ handles = [h \in Handles |-> NoHandle]
    /\ last = Call("start", 1)
    /\ hist = [p \in Paths |-> NoHist]
    /\ whole = [p \in Paths |-> NoWhole]

\* a step A of handle h in a whole-file session: a close that persists
\* records the shape of its session
StepWhole(A, h) ==
    /\ A
    /\ Within(h, MaxLenWhole)
    /\ whole' = IF last'.upsert
                THEN [whole EXCEPT ![handles[h].name] = Session(handles[h])]
                ELSE whole

NextWholeFile ==
    \E h \in Handles :
        \/ StepWhole(\E name \in {"p", "./p"}, mode \in Modes :
                        /\ hist[Normalize(name)].some => ~Persists(mode)
                        /\ Open(h, name, mode), h)
        \/ StepWhole(/\ handles[h].trace = "fresh"
                     /\ \E data \in WriteArgs(MaxDataWhole) : Write(h, data), h)
        \/ StepWhole(Read(h, -1), h)
        \/ StepWhole(Close(h), h)
        \/ StepWhole(Drop(h), h)

SpecWholeFile == InitWholeFile /\ [][NextWholeFile]_vars

\* ------------------------------- SpecTwoHandles: two handles on one path
\* two objects are constructed on p in mutating binary modes and live side
\* by side; each writes a byte of its own, may go back to the start, and
\* closes; their calls interleave in every order
TwoHandles == {1, 2}
TwoModes == {<<"w", "b">>, <<"a", "b">>, <<"r", "b", "+">>}
OwnByte(h) == IF h = 1 THEN Bytes(<<195>>) ELSE Bytes(<<169>>)

InitTwoHandles ==
    /\ store \in [Paths -> {NoRow, Row(<<NL>>)}]
    /\ store["q"] = NoRow
    /\ committed = store
    /\ handles = [h \in TwoHandles |-> NoHandle]
    /\ last = Call("start", 1)
    /\ hist = [p \in Paths |-> NoHist]
    /\ whole = [p \in Paths |-> NoWhole]

NextTwoHandles ==
    \E h \in TwoHandles :
        \/ Step(\E mode \in TwoModes : Open(h, "p", mode), h, MaxLenTwo)
        \/ Step(Write(h, OwnByte(h)), h, MaxLenTwo)
        \/ Step(Seek(h, 0, 0), h, MaxLenTwo)
        \/ Step(Close(h), h, MaxLenTwo)

SpecTwoHandles == InitTwoHandles /\ [][NextTwoHandles]_vars

\* ------------------------------------ SpecFailingStore: the store may fail
\* one object at a time on p; the store may fail in the close of a handle
\* of a mutating mode; handles are closed or abandoned and others follow
InitFailingStore ==
    /\ store \in [Paths -> {NoRow, Row(<<NL>>)}]
    /\ store["q"] = NoRow
    /\ committed = store
    /\ handles = [h \in Handles |-> NoHandle]
    /\ last = Call("start", 1)
    /\ hist = [p \in Paths |-> NoHist]
    /\ whole = [p \in Paths |-> NoWhole]

NextFailingStore ==
    \E h \in Handles :
        \/ Step(\E mode \in Modes : Open(h, "p", mode), h, MaxLenFailing)
        \/ Step(Write(h, Bytes(<<195>>)), h, MaxLenFailing)
        \/ Step(Read(h, -1), h, MaxLenFailing)
        \/ Step(Readline(h, -1), h, MaxLenFailing)
        \/ Step(Readlines(h, -1), h, MaxLenFailing)
        \/ Step(Seek(h, 0, 0), h, MaxLenFailing)
        \/ Step(Tell(h), h, MaxLenFailing)
        \/ Step(Flush(h), h, MaxLenFailing)
        \/ Step(Iter(h), h, MaxLenFailing)
        \/ Step(DunderNext(h), h, MaxLenFailing)
        \/ Step(Enter(h), h, MaxLenFailing)
        \/ Step(Close(h), h, MaxLenFailing)
        \/ Step(\E fail \in Failures : CloseFails(h, fail), h, MaxLenFailing)
        \/ Step(Drop(h), h, MaxLenFailing)

SpecFailingStore == InitFailingStore /\ [][NextFailingStore]_vars

\* ------------------------------------------------------------ claims
\* what the claims call the modes, read off the mode string itself
ModeHasAny(mode, flags) == \E i \in DOMAIN mode : mode[i] \in flags
Mutating(mode) == ModeHasAny(mode, {"w", "a", "+"})
ReadOnlyMode(mode) == ModeHasAny(mode, {"r"}) /\ ~Mutating(mode)
PureWrite(mode) == ModeHasAny(mode, {"w"}) /\ ~ModeHasAny(mode, {"r", "a", "+"})
AppendMode(mode) == ModeHasAny(mode, {"a"})
Readable(mode) == ModeHasAny(mode, {"r", "+"})

\* the bytes of a Python value: a text stands for its UTF-8 form
ContentOf(v) == IF v.kind = "str" THEN Encode(v.val) ELSE v.val

\* no text of the alphabet has b as its UTF-8 form
NoText(b) == \A t \in SeqsUpTo(CharVals, Len(b)) : Encode(t) # b

\* the result of a read that had to hand back the bytes b: the bytes in
\* binary mode; in text mode the text whose UTF-8 form is b, or a decode
\* error when there is none
Returned(f, call, b) ==
    IF f.is_binary THEN call.err = "none" /\ call.ret = Bytes(b)
    ELSE \/ call.err = "none" /\ call.ret.kind = "str" /\ Encode(call.ret.val) = b
         \/ call.err = "decode" /\ NoText(b)

\* handle h reads to the end, as its first call, a record that a session
\* in mode w or wb left by one write at its initial position
RoundTripRead(h) ==
    /\ handles[h].exists /\ ~handles[h].closed
    /\ handles[h].trace = "fresh"
    /\ ReadOnlyMode(handles[h].mode)
    /\ handles[h].expect.trace = "w1"
    /\ ~handles[h].expect.loads /\ ~handles[h].expect.append
    /\ Read(h, -1)

\* C1, as stated: after a session in mode w or wb wrote b once and closed,
\* read() of a read-mode handle on the path returns exactly b
C1_RoundTripAsStated ==
    [][\A h \in Handles :
          RoundTripRead(h) =>
              /\ last'.err = "none"
              /\ ContentOf(last'.ret) = ContentOf(handles[h].expect.data)]_vars

\* C1, amended: after a session in mode w or wb wrote b once and closed,
\* whatever the record was before, read() of an rb handle returns exactly
\* the bytes of b; read() of an r handle returns b itself when b was text,
\* the text that b encodes when b was bytes, and raises a decode error when
\* those bytes are not valid UTF-8
C1_RoundTrip ==
    [][\A h \in Handles :
          RoundTripRead(h) =>
              LET b == handles[h].expect.data
              IN  /\ Returned(handles[h], last', ContentOf(b))
                  /\ (~handles[h].is_binary /\ b.kind = "str")
                        => (last'.err = "none" /\ last'.ret = b)]_vars

\* an r handle has read back the text a w session wrote over an older record
C1_Witness ==
    /\ last.op = "read" /\ last.err = "none"
    /\ handles[1].exists /\ handles[1].mode = <<"r">>
    /\ handles[1].expect.trace = "w1" /\ ~handles[1].expect.loads
    /\ handles[1].expect.prior = <<NL, NL>>
    /\ handles[1].expect.data = Str(<<233, NL>>)
    /\ last.ret = Str(<<233, NL>>)

\* C2: a handle opened in append mode on a record A starts at position
\* len(A) with buffer A; after one write of B its buffer is A followed by B,
\* its close stores exactly A followed by B, and a read-mode handle opened
\* afterwards loads A followed by B
C2_AppendAccumulates ==
    \A h \in Handles :
        LET f == handles[h]
        IN  /\ (f.exists /\ AppendMode(f.mode) /\ f.trace = "fresh")
                  => (f.pos = Len(f.prior) /\ f.buffer = f.prior)
            /\ (f.exists /\ AppendMode(f.mode) /\ f.trace = "w1")
                  => /\ f.buffer = f.prior \o ContentOf(f.wdata)
                     /\ f.pos = Len(f.buffer)
                     /\ f.closed => store[f.name] = Row(f.prior \o ContentOf(f.wdata))
            /\ (f.exists /\ ReadOnlyMode(f.mode) /\ f.expect.trace = "w1"
                  /\ f.expect.append)
                  => f.buffer = f.expect.prior \o ContentOf(f.expect.data)

\* a read-mode handle has read what an append session added to a record
C2_Witness ==
    /\ last.op = "read" /\ last.err = "none"
    /\ handles[1].exists /\ ReadOnlyMode(handles[1].mode)
    /\ handles[1].expect.trace = "w1" /\ handles[1].expect.append
    /\ handles[1].expect.prior = <<195>>
    /\ handles[1].expect.data = Bytes(<<169, NL>>)
    /\ last.ret = Str(<<233, NL>>)

\* C3: a handle in pure write mode starts with an empty buffer at position
\* 0 whatever the record X is; after one write of Y its buffer is Y, and its
\* close leaves the record equal to its buffer, exactly Y
C3_OverwriteReplaces ==
    \A h \in Handles :
        LET f == handles[h]
        IN  (f.exists /\ PureWrite(f.mode)) =>
               /\ f.trace = "fresh" => (f.buffer = <<>> /\ f.pos = 0)
               /\ f.trace = "w1" => f.buffer = ContentOf(f.wdata)
               /\ f.closed => store[f.name] = Row(f.buffer)

\* a w session has replaced a two-byte record by a one-byte one
C3_Witness ==
    /\ handles[1].exists /\ handles[1].closed /\ PureWrite(handles[1].mode)
    /\ handles[1].trace = "w1"
    /\ handles[1].found /\ Len(handles[1].prior) = 2
    /\ Len(ContentOf(handles[1].wdata)) = 1
    /\ store[handles[1].name] = Row(ContentOf(handles[1].wdata))

\* C9: a read-mode handle opened on a path without record has an empty
\* buffer and position 0, its read() returns the empty result, and the path
\* has no record while the handle lives and after it is closed
C9_MissingRecord ==
    \A h \in Handles :
        LET f == handles[h]
        IN  (f.exists /\ ReadOnlyMode(f.mode) /\ ~f.found) =>
               /\ f.buffer = <<>> /\ f.pos = 0
               /\ ~store[f.name].present /\ ~committed[f.name].present
               /\ (last.op = "read" /\ last.h = h /\ last.err # "closed")
                     => /\ last.err = "none"
                        /\ last.ret = IF f.is_binary THEN Bytes(<<>>) ELSE Str(<<>>)

\* read() on an r handle of a missing record has returned the empty text
C9_Witness ==
    /\ handles[1].exists /\ handles[1].mode = <<"r">> /\ ~handles[1].found
    /\ last.op = "read" /\ last.err = "none" /\ last.ret = Str(<<>>)

\* the step is a call of op in ops on handle h, an object that exists
CallOn(h, ops) == handles[h].exists /\ last'.h = h /\ last'.op \in ops

\* a seek step with these arguments returns the position they give; the
\* test follows from Seek and spares evaluating it for the other arguments
SeekReturns(h, offset, whence) ==
    last'.ret = IntVal(SeekPos(handles[h].buffer, handles[h].pos, offset, whence))

\* the step leaves the object h as it is, but for its with-scope
SameObject(h) == handles' = [handles EXCEPT ![h].scope = handles'[h].scope]

\* C4: a closed handle stays closed; on it read, readline, readlines,
\* write, seek, tell, flush, __enter__, __iter__ and __next__ raise the
\* closed-handle error, close (and __exit__) return without error, and none
\* of them changes the buffer, the position, the table or the committed
\* table, or runs another upsert
C4_ClosedRejects ==
    [][\A h \in Handles :
          (handles[h].exists /\ handles[h].closed /\ handles'[h].exists) =>
              /\ handles'[h].closed
              /\ SameObject(h)
              /\ store' = store /\ committed' = committed
              /\ ~last'.upsert /\ ~last'.commit
              /\ last'.op \in {"read", "readline", "readlines", "write", "seek",
                               "tell", "flush", "enter", "iter", "next",
                               "close", "exit"}
              /\ last'.err = IF last'.op \in {"close", "exit"} THEN "none"
                             ELSE "closed"]_vars

\* a write on a handle that close has persisted was rejected
C4_Witness ==
    /\ handles[1].exists /\ handles[1].closed /\ handles[1].upserts = 1
    /\ last.op = "write" /\ last.err = "closed"
    /\ store[handles[1].name] = Row(handles[1].persisted)

\* C5: on an open handle write raises "not open for writing" exactly when
\* the mode has none of w, a, +, and read, readline and readlines raise "not
\* open for reading" exactly when it has none of r, +; a rejected call
\* leaves the object as it was, and no call on a handle whose mode has none
\* of w, a, +, close included, changes the table
C5_ModePermission ==
    [][\A h \in Handles :
          (handles[h].exists /\ ~handles[h].closed /\ last'.h = h) =>
              LET mode == handles[h].mode
              IN  /\ last'.op = "write" =>
                        (last'.err = "not_writable" <=> ~Mutating(mode))
                  /\ last'.op \in {"read", "readline", "readlines"} =>
                        (last'.err = "not_readable" <=> ~Readable(mode))
                  /\ last'.err \in {"not_writable", "not_readable"} =>
                        (handles' = handles /\ store' = store)
                  /\ ~Mutating(mode) =>
                        (store' = store /\ committed' = committed)]_vars

\* write was rejected on an r handle of an existing record
C5_Witness ==
    /\ handles[1].exists /\ handles[1].mode = <<"r">> /\ handles[1].found
    /\ last.op = "write" /\ last.err = "not_writable"
    /\ handles[1].buffer = handles[1].prior /\ handles[1].pos = 0
    /\ store[handles[1].name] = Row(handles[1].prior)

\* seek(n, 0) sets the position n and returns it, and tell returns the
\* position and changes nothing
SeekTell(h) ==
    /\ (~handles[h].closed /\ CallOn(h, {"seek"})) =>
          \A n \in 0 .. MaxLen + 1 :
              (SeekReturns(h, n, 0) /\ Seek(h, n, 0)) =>
                  (handles'[h].pos = n /\ last'.ret = IntVal(n)
                     /\ handles'[h].buffer = handles[h].buffer)
    /\ (~handles[h].closed /\ CallOn(h, {"tell"})) =>
          (last'.err = "none" /\ last'.ret = IntVal(handles[h].pos)
             /\ handles' = handles)

\* the step is read(k) on handle h, read-capable, open and at a position
\* n >= 0 from which the buffer holds k more bytes
ReadWithin(h, k) ==
    /\ CallOn(h, {"read"})
    /\ ~handles[h].closed /\ Readable(handles[h].mode)
    /\ handles[h].pos >= 0 /\ Len(handles[h].buffer) >= handles[h].pos + k
    /\ Read(h, k)

\* C6, as stated: after seek(n, 0) tell returns n; read(k), with n + k
\* within the buffer, returns exactly the bytes buffer[n .. n+k-1] and
\* leaves the position n + k; tell changes nothing
C6_SeekTellAsStated ==
    [][\A h \in Handles :
          /\ SeekTell(h)
          /\ \A k \in 0 .. MaxLen :
                ReadWithin(h, k) =>
                    LET n == handles[h].pos
                    IN  /\ handles'[h].pos = n + k
                        /\ last'.err = "none"
                        /\ ContentOf(last'.ret) = SubSeq(handles[h].buffer, n + 1, n + k)]_vars

\* C6, amended: after seek(n, 0) tell returns n; read(k), with n + k within
\* the buffer, leaves the position n + k and the buffer as it was; in binary
\* mode it returns exactly the bytes buffer[n .. n+k-1], in text mode the
\* text those bytes encode, and it raises a decode error, the position being
\* n + k all the same, when they are not valid UTF-8; tell changes nothing
C6_SeekTell ==
    [][\A h \in Handles :
          /\ SeekTell(h)
          /\ \A k \in 0 .. MaxLen :
                ReadWithin(h, k) =>
                    LET n == handles[h].pos
                    IN  /\ handles'[h].pos = n + k
                        /\ handles'[h].buffer = handles[h].buffer
                        /\ Returned(handles[h], last',
                                    SubSeq(handles[h].buffer, n + 1, n + k))]_vars

\* an rb handle has read the second byte of a two-byte record
C6_Witness ==
    /\ handles[1].exists /\ handles[1].mode = <<"r", "b">>
    /\ handles[1].buffer = <<195, 169>> /\ handles[1].pos = 2
    /\ last.op = "read" /\ last.err = "none" /\ last.ret = Bytes(<<169>>)

\* C7: the first close of a handle whose mode has w, a or + replaces the
\* row of its path by its whole buffer, leaves the other rows alone and
\* commits, so that the committed table is the table; a handle opened
\* afterwards on the path in a loading mode starts with that buffer; the
\* first close of any other handle runs no upsert and no commit
C7_ClosePersists ==
    [][\A h \in Handles :
          /\ (~handles[h].closed /\ CallOn(h, {"close", "exit"})) =>
                LET f == handles[h]
                IN  IF Mutating(f.mode)
                    THEN /\ store' = [store EXCEPT ![f.name] = Row(f.buffer)]
                         /\ committed' = store'
                         /\ last'.upsert /\ last'.commit /\ last'.err = "none"
                    ELSE /\ store' = store /\ committed' = committed
                         /\ ~last'.upsert /\ ~last'.commit
          /\ \A name \in RawNames, mode \in Modes :
                (Open(h, name, mode) /\ hist[Normalize(name)].some
                   /\ ModeHasAny(mode, {"r", "a", "+"})) =>
                    handles'[h].buffer = hist[Normalize(name)].buffer]_vars

\* an r+ handle starts with the empty buffer that an earlier session left
\* as the committed row of p
C7_Witness ==
    /\ last.op = "open" /\ handles[1].exists
    /\ handles[1].mode = <<"r", "+">> /\ handles[1].name = "p"
    /\ hist["p"].some /\ hist["p"].buffer = <<>>
    /\ handles[1].buffer = <<>> /\ handles[1].found
    /\ whole["p"] = NoWhole /\ committed["p"] = Row(<<>>)

\* C8: the row of a path q changes only in a step that is the first close
\* of a handle on q whose mode has w, a or +
C8_StoreFrame ==
    [][\A q \in Paths :
          store'[q] # store[q] =>
              \E h \in Handles :
                  /\ handles[h].exists /\ ~handles[h].closed
                  /\ handles[h].name = q /\ Mutating(handles[h].mode)
                  /\ last'.h = h /\ last'.op \in {"close", "exit"}]_vars

\* the close of a handle on p has changed the row of p and left the row of
\* q, which no session has written, in place
C8_Witness ==
    /\ last.op = "close" /\ last.upsert
    /\ handles[1].exists /\ handles[1].name = "p" /\ handles[1].found
    /\ handles[1].prior # handles[1].persisted
    /\ store["p"] = Row(handles[1].persisted)
    /\ store["q"] = Row(<<NL>>) /\ ~hist["q"].some

\* C10: __enter__ on an open handle returns the handle and on a closed one
\* raises the closed-handle error; after __exit__, reached normally or by an
\* exception raised in the block, the handle is closed and, when its mode
\* has w, a or +, its buffer has been upserted exactly once and is the
\* committed row of its path
C10_ScopedUse ==
    [][\A h \in Handles :
          /\ CallOn(h, {"enter"}) =>
                /\ SameObject(h)
                /\ IF handles[h].closed THEN last'.err = "closed"
                   ELSE last'.err = "none" /\ last'.ret = Self
          /\ CallOn(h, {"exit"}) =>
                LET g == handles'[h]
                IN  /\ g.closed /\ last'.err = "none"
                    /\ g.buffer = handles[h].buffer
                    /\ IF Mutating(g.mode)
                       THEN /\ g.upserts = 1 /\ g.persisted = g.buffer
                            /\ store'[g.name] = Row(g.buffer)
                            /\ committed' = store'
                       ELSE g.upserts = 0 /\ store' = store]_vars

\* a with block on an a handle was left by an exception and the buffer
\* persisted
C10_Witness ==
    /\ last.op = "exit" /\ last.exc /\ last.upsert
    /\ handles[1].exists /\ handles[1].closed /\ handles[1].mode = <<"a">>
    /\ handles[1].upserts = 1 /\ handles[1].scope = "out"
    /\ store[handles[1].name] = Row(handles[1].buffer)

\* the natural line of the buffer from position p: up to and including the
\* first newline at or after p, or the rest of the buffer when there is none
NaturalLine(buffer, p) ==
    LET ends == {i \in p + 1 .. Len(buffer) : buffer[i] = NL}
        stop == IF ends = {} THEN Len(buffer)
                ELSE CHOOSE i \in ends : \A j \in ends : i <= j
    IN  SubSeq(buffer, p + 1, stop)

\* the step is readline(size) with a cap that cuts: handle h is open and
\* read-capable at a position within the buffer, and the natural line from
\* there is longer than size
CappedReadline(h, size) ==
    /\ CallOn(h, {"readline"})
    /\ ~handles[h].closed /\ Readable(handles[h].mode)
    /\ size >= 0
    /\ handles[h].pos >= 0 /\ handles[h].pos < Len(handles[h].buffer)
    /\ Len(NaturalLine(handles[h].buffer, handles[h].pos)) > size
    /\ Readline(h, size)

\* C11: readline(size), when the natural line from position p is longer
\* than size, returns the first size bytes of that line (in text mode their
\* decoding, or a decode error) and leaves the position at p + size
C11_CappedReadlineResumes ==
    [][\A h \in Handles : \A size \in 0 .. MaxLen :
          CappedReadline(h, size) =>
              LET f == handles[h]
              IN  /\ Returned(f, last', SubSeq(NaturalLine(f.buffer, f.pos), 1, size))
                  /\ handles'[h].pos = f.pos + size]_vars

\* the step is a permitted write(data) on handle h, open and at a position
\* p >= 0
PermittedWrite(h, data) ==
    /\ CallOn(h, {"write"})
    /\ ~handles[h].closed /\ Mutating(handles[h].mode)
    /\ ~(handles[h].is_binary /\ data.kind = "str")
    /\ handles[h].pos >= 0
    /\ Write(h, data)

\* C12: a permitted write of d bytes at position p puts them at the offsets
\* p .. p+d-1 of the buffer, keeps the bytes before p and the bytes at the
\* offsets >= p + d where they were, sets the position p + d and returns d
C12_WriteSplices ==
    [][\A h \in Handles : \A data \in WriteSamples :
          PermittedWrite(h, data) =>
              LET f == handles[h]
                  g == handles'[h]
                  w == ContentOf(data)
                  d == Len(w)
              IN  /\ \A i \in 1 .. d :
                        f.pos + i <= Len(g.buffer) /\ g.buffer[f.pos + i] = w[i]
                  /\ \A i \in 1 .. Len(f.buffer) :
                        (i <= f.pos \/ i > f.pos + d) =>
                            (i <= Len(g.buffer) /\ g.buffer[i] = f.buffer[i])
                  /\ g.pos = f.pos + d
                  /\ last'.err = "none" /\ last'.ret = IntVal(d)]_vars

\* C13: the position of a handle is never negative
C13_PositionNonNegative ==
    \A h \in Handles : handles[h].exists => handles[h].pos >= 0

\* the buffer b cut after each newline, in order
RECURSIVE SplitLines(_)
SplitLines(b) ==
    IF b = <<>> THEN <<>>
    ELSE LET l == NaturalLine(b, 0)
         IN  <<l>> \o SplitLines(SubSeq(b, Len(l) + 1, Len(b)))

\* the empty result of the mode of handle f
EmptyResult(f) == IF f.is_binary THEN Bytes(<<>>) ELSE Str(<<>>)

\* position p is where successive uncapped readlines from position 0 can
\* stand: at 0, just past a newline, or at or past the end
LineStart(buffer, p) ==
    \/ p = 0
    \/ p >= Len(buffer)
    \/ p > 0 /\ buffer[p] = NL

\* the step is call op on handle h, open, read-capable and at a line start
LineCall(h, op) ==
    /\ CallOn(h, {op})
    /\ ~handles[h].closed /\ Readable(handles[h].mode)
    /\ LineStart(handles[h].buffer, handles[h].pos)

\* handle f can hand back the bytes b: it is binary or b is valid UTF-8
CanDeliver(f, b) == f.is_binary \/ ~NoText(b)

\* the lines a readlines call returned are the byte strings segs
LinesAre(f, lines, segs) ==
    /\ Len(lines) = Len(segs)
    /\ \A i \in 1 .. Len(segs) :
          /\ lines[i].kind = IF f.is_binary THEN "bytes" ELSE "str"
          /\ ContentOf(lines[i]) = segs[i]

\* the length of the lines of segs up to and including the first one that
\* handle f cannot hand back
RECURSIVE ThroughFirstBad(_, _)
ThroughFirstBad(f, segs) ==
    IF segs = <<>> THEN 0
    ELSE IF ~CanDeliver(f, Head(segs)) THEN Len(Head(segs))
    ELSE Len(Head(segs)) + ThroughFirstBad(f, Tail(segs))

\* C14, as stated: from a line start, readline() returns the natural line,
\* the buffer up to and including the next newline or else to its end, and
\* moves the position past it; at or past the end it returns the empty
\* result and leaves the position; readlines() returns all the lines from
\* the position on, which together are the rest of the buffer
C14_LineSplittingAsStated ==
    [][\A h \in Handles :
          LET f == handles[h]
              rest == SliceFrom(f.buffer, f.pos)
          IN  /\ (LineCall(h, "readline") /\ Readline(h, -1)) =>
                    IF f.pos >= Len(f.buffer)
                    THEN /\ last'.err = "none" /\ last'.ret = EmptyResult(f)
                         /\ handles' = handles
                    ELSE /\ last'.err = "none"
                         /\ ContentOf(last'.ret) = NaturalLine(f.buffer, f.pos)
                         /\ handles'[h].pos = f.pos + Len(NaturalLine(f.buffer, f.pos))
              /\ (LineCall(h, "readlines") /\ Readlines(h, -1)) =>
                    /\ last'.err = "none"
                    /\ LinesAre(f, last'.lines, SplitLines(rest))
                    /\ handles'[h].pos = f.pos + Len(rest)]_vars

\* C14, amended: from a line start, readline() moves the position past the
\* natural line and returns it, in binary mode as bytes and in text mode as
\* the text it encodes, or raises a decode error when the line is not valid
\* UTF-8; at or past the end it returns the empty result and leaves the
\* position; readlines() returns all the lines from the position on, which
\* together are the rest of the buffer, or raises the decode error of the
\* first line that is not valid UTF-8, the position being just past that line
C14_LineSplitting ==
    [][\A h \in Handles :
          LET f == handles[h]
              rest == SliceFrom(f.buffer, f.pos)
              segs == SplitLines(rest)
          IN  /\ (LineCall(h, "readline") /\ Readline(h, -1)) =>
                    IF f.pos >= Len(f.buffer)
                    THEN /\ last'.err = "none" /\ last'.ret = EmptyResult(f)
                         /\ handles' = handles
                    ELSE /\ Returned(f, last', NaturalLine(f.buffer, f.pos))
                         /\ handles'[h].pos = f.pos + Len(NaturalLine(f.buffer, f.pos))
                         /\ handles'[h].buffer = f.buffer
              /\ (LineCall(h, "readlines") /\ Readlines(h, -1)) =>
                    /\ handles'[h].buffer = f.buffer
                    /\ IF \A i \in 1 .. Len(segs) : CanDeliver(f, segs[i])
                       THEN /\ last'.err = "none"
                            /\ LinesAre(f, last'.lines, segs)
                            /\ handles'[h].pos = f.pos + Len(rest)
                       ELSE /\ last'.err = "decode"
                            /\ handles'[h].pos = f.pos + ThroughFirstBad(f, segs)]_vars

\* readlines() on an r+ handle has returned the two lines of a two-line
\* buffer
C14_Witness ==
    /\ handles[1].exists /\ handles[1].mode = <<"r", "+">>
    /\ handles[1].buffer = <<NL, NL>> /\ handles[1].pos = 2
    /\ last.op = "readlines" /\ last.err = "none"
    /\ last.lines = <<Str(<<NL>>), Str(<<NL>>)>>

\* C15: __iter__ on an open handle sets the position 0 and returns the
\* handle; __next__ on an open handle has the outcome of readline() from the
\* same state, the same line and position or the same failure, except that
\* it ends the iteration, leaving the handle as it is, where readline()
\* would return the empty result
C15_IterationIsReadline ==
    [][\A h \in Handles :
          /\ (~handles[h].closed /\ CallOn(h, {"iter"})) =>
                /\ handles'[h].pos = 0 /\ handles'[h].buffer = handles[h].buffer
                /\ last'.err = "none" /\ last'.ret = Self
          /\ (~handles[h].closed /\ CallOn(h, {"next"})) =>
                LET o == ReadlineOutcome(handles[h], -1)
                IN  IF o.err = "none" /\ o.ret.val = <<>>
                    THEN last'.err = "stop" /\ handles' = handles
                    ELSE /\ last'.err = o.err /\ last'.ret = o.ret
                         /\ handles'[h].pos = o.pos
                         /\ handles'[h].buffer = handles[h].buffer]_vars

\* C16: seek(offset, whence) on an open handle sets the position offset for
\* whence 0, position + offset for whence 1, len(buffer) + offset for
\* whence 2 and leaves it for any other whence, without clamping; it returns
\* the resulting position and changes neither the buffer, nor the closed
\* flag, nor the table
C16_SeekSemantics ==
    [][\A h \in Handles :
          (~handles[h].closed /\ CallOn(h, {"seek"})) =>
              \A a \in SeekArgs :
                  (SeekReturns(h, a[1], a[2]) /\ Seek(h, a[1], a[2])) =>
                      LET f == handles[h]
                          g == handles'[h]
                      IN  /\ a[2] = 0 => g.pos = a[1]
                          /\ a[2] = 1 => g.pos = f.pos + a[1]
                          /\ a[2] = 2 => g.pos = Len(f.buffer) + a[1]
                          /\ a[2] \notin {0, 1, 2} => g.pos = f.pos
                          /\ last'.err = "none" /\ last'.ret = IntVal(g.pos)
                          /\ g.buffer = f.buffer /\ ~g.closed
                          /\ store' = store /\ committed' = committed]_vars

\* a seek on a handle of a two-byte record has left the position -1 and
\* returned it
C16_Witness ==
    /\ handles[1].exists /\ ~handles[1].closed
    /\ handles[1].buffer = <<195, 169>> /\ handles[1].pos = -1
    /\ last.op = "seek" /\ last.err = "none" /\ last.ret = IntVal(-1)

\* C17: when two handles in mutating modes are open on one path, the close
\* of the one that closes last leaves its own buffer as the row, committed,
\* whatever the other has stored, and once both are closed the row stays
C17_LastCloseWins ==
    [][\A h \in TwoHandles : \A g \in TwoHandles \ {h} :
          LET f == handles[h]
              o == handles[g]
          IN  (f.exists /\ o.exists /\ f.name = o.name
                 /\ Mutating(f.mode) /\ Mutating(o.mode) /\ o.closed) =>
                  /\ (~f.closed /\ CallOn(h, {"close"})) =>
                        (store'[f.name] = Row(f.buffer) /\ committed' = store')
                  /\ f.closed => (store' = store /\ committed' = committed)]_vars

\* two append handles opened on the same one-byte record have each added
\* their byte; the second to close has replaced what the first stored
C17_Witness ==
    /\ handles[1].exists /\ handles[1].closed /\ handles[1].mode = <<"a", "b">>
    /\ handles[2].exists /\ handles[2].closed /\ handles[2].mode = <<"a", "b">>
    /\ handles[1].persisted = <<NL, 195>> /\ handles[2].persisted = <<NL, 169>>
    /\ last.op = "close" /\ last.h = 2 /\ last.upsert
    /\ store["p"] = Row(<<NL, 169>>) /\ committed = store

\* handle h is closed, of a mutating mode, and its close did not persist
FailedClose(h) ==
    /\ handles[h].exists /\ handles[h].closed
    /\ Mutating(handles[h].mode) /\ handles[h].upserts = 0

\* no call on a handle whose close failed retries the persistence: the
\* handle stays closed and as it is, close returns silently, every other
\* call raises the closed-handle error, and nothing is upserted or committed
NoRetry(h) ==
    (FailedClose(h) /\ handles'[h].exists) =>
        /\ SameObject(h) /\ handles'[h].closed
        /\ store' = store /\ committed' = committed
        /\ ~last'.upsert /\ ~last'.commit
        /\ last'.err = IF last'.op = "close" THEN "none" ELSE "closed"

\* C18, as stated: when the upsert or the commit fails in the first close
\* of a handle of a mutating mode, the error propagates, the handle is left
\* closed, no later call on it retries the persistence, and the buffer is
\* never written by this handle: the table is as it was before the close
C18_FailingCloseAsStated ==
    [][\A h \in Handles :
          /\ \A fail \in Failures :
                CloseFails(h, fail) =>
                    /\ last'.err = "store" /\ handles'[h].closed
                    /\ handles'[h].buffer = handles[h].buffer
                    /\ store' = store /\ committed' = committed
          /\ NoRetry(h)]_vars

\* C18, amended: when the upsert or the commit fails in the first close of
\* a handle of a mutating mode, the error propagates, the handle is left
\* closed and no later call on it retries the persistence; the committed
\* table is as it was; when the upsert failed the table is as it was too;
\* when the commit failed the upserted row stays in the table as the
\* connection sees it, unless the store itself rolled it back
C18_FailingClose ==
    [][\A h \in Handles :
          /\ \A fail \in Failures :
                CloseFails(h, fail) =>
                    LET f == handles[h]
                    IN  /\ last'.err = "store" /\ handles'[h].closed
                        /\ handles'[h].buffer = f.buffer
                        /\ committed' = committed
                        /\ fail = "upsert" => store' = store
                        /\ fail = "commit" =>
                              store' = [store EXCEPT ![f.name] = Row(f.buffer)]
                        /\ fail = "commit_undone" => store' = committed
          /\ NoRetry(h)]_vars

\* the second close of a w handle whose commit failed has returned
\* silently, and the row the handle upserted is in the table, uncommitted
C18_Witness ==
    /\ handles[1].exists /\ handles[1].closed /\ handles[1].mode = <<"w">>
    /\ handles[1].upserts = 0 /\ handles[1].buffer = <<195>>
    /\ last.op = "close" /\ last.err = "none" /\ ~last.upsert
    /\ store["p"] = Row(<<195>>) /\ committed["p"] = Row(<<NL>>)

\* b starts with a
IsPrefix(a, b) == Len(a) <= Len(b) /\ SubSeq(b, 1, Len(a)) = a

\* C19: a handle opened in mode a or ab on a record A keeps A at the head of
\* its buffer in every seek and write, and its close stores a record of
\* which A is a prefix
C19_AppendKeepsContent ==
    [][\A h \in TwoHandles :
          LET f == handles[h]
          IN  (f.exists /\ ~f.closed /\ AppendMode(f.mode)
                 /\ ~ModeHasAny(f.mode, {"+"})
                 /\ CallOn(h, {"seek", "write", "close"})) =>
                  /\ IsPrefix(f.prior, handles'[h].buffer)
                  /\ last'.op = "close" =>
                        (store'[f.name].present
                           /\ IsPrefix(f.prior, store'[f.name].content))]_vars

\* C20: on a read-capable open handle at a position >= 0, within the buffer
\* or past its end, no read(size) and no uncapped readline() leaves the
\* position smaller than it was, and at or past the end the call returns
\* the empty result and leaves the position
C20_ReadsNeverMoveBack ==
    [][\A h \in Handles :
          LET f == handles[h]
          IN  (f.exists /\ ~f.closed /\ Readable(f.mode) /\ f.pos >= 0
                 /\ \/ CallOn(h, {"read"})
                    \/ CallOn(h, {"readline"}) /\ Readline(h, -1)) =>
                  /\ handles'[h].pos >= f.pos
                  /\ f.pos >= Len(f.buffer) =>
                        /\ last'.err = "none" /\ last'.ret = EmptyResult(f)
                        /\ handles'[h].pos = f.pos]_vars

====
